---- MODULE Spec2Model ----
(***************************************************************************)
(* The chat page of chat-rag (static/script.js) as a state machine: the    *)
(* page's global variables, the two browser storages, the visible          *)
(* transcript, the submit handler with its streaming loop, and the         *)
(* asynchronous flows (loadSystemPrompt, updateParameterControls, the      *)
(* storage event listener, clearChat, a page reload).                      *)
(*                                                                         *)
(* Text is a sequence of tokens; "__METADATA__:" is the two tokens         *)
(* "__METADATA__" and ":" so that a text can begin with part of the        *)
(* sentinel, or contain it further on.                                     *)
(***************************************************************************)
EXTENDS Integers, Sequences, FiniteSets, TLC

VARIABLES
    conversationHistory,   \* let conversationHistory
    sessionMetrics,        \* let sessionMetrics
    currentSystemPrompt,   \* let currentSystemPrompt
    supportedParams,       \* let supportedParams
    sessionStorage,        \* [history, metrics], each <<>> (absent) or <<json>>
    localStorage,          \* [model, prompt], each <<>> (absent) or <<id>>
    chatHistory,           \* the #chat-history element's children (the transcript)
    messageInputValue,     \* messageInput.value
    messageInputDisabled,  \* messageInput.disabled
    submitButtonDisabled,  \* submitButton.disabled
    pc,                    \* where the submit handler is suspended
    inFlight,              \* submit handlers between their accept and their finally
    messageBuffer,         \* let messageBuffer of the running handler
    delivered,             \* the chunks reader.read() handed out so far (chunkCount = Len)
    botMessageContent,     \* the bot element of the last accepted submit
    botIdx,                \* its index in chatHistory while a handler writes to it, 0 when detached
    metricsCalls,          \* the arguments of the updateMetrics calls of this turn
    turnBase,              \* the history as the running handler found it
    turnUser,              \* the message the running handler pushed
    turnEnd,               \* how the last handler left: "none", "done", "http", "stream"
    lastRequest,           \* the body of the last POST /api/chat
    nRequests,             \* the number of POST /api/chat issued by this page
    pendingPrompts,        \* suspended loadSystemPrompt calls
    pendingParams,         \* suspended updateParameterControls calls
    nChunks,               \* chunks delivered since the page was first loaded
    nReloads,              \* page loads after the first
    nClears,               \* clear-chat clicks
    nSteps,                \* events so far
    \* the settings page (settings.js)
    freeFilterItem,        \* localStorage item chat-rag-free-filter: <<>> or <<string>>
    modelsData,            \* let modelsData
    promptsData,           \* let promptsData
    modelOptions,          \* the options of #model-select
    modelSelectValue,      \* modelSelect.value
    promptOptions,         \* the options of #prompt-select
    promptSelectValue,     \* promptSelect.value
    freeOnlyChecked,       \* freeOnlyFilter.checked
    settingsPending,       \* which of loadModels, loadPrompts await their fetch
    lastChosenModel        \* the last model the user picked in the select, <<>> if none

vars == <<conversationHistory, sessionMetrics, currentSystemPrompt, supportedParams,
          sessionStorage, localStorage, chatHistory, messageInputValue,
          messageInputDisabled, submitButtonDisabled, pc, inFlight, messageBuffer,
          delivered, botMessageContent, botIdx, metricsCalls, turnBase, turnUser, turnEnd, lastRequest,
          nRequests, pendingPrompts, pendingParams,
          nChunks, nReloads, nClears, nSteps,
          freeFilterItem, modelsData, promptsData, modelOptions, modelSelectValue,
          promptOptions, promptSelectValue, freeOnlyChecked, settingsPending,
          lastChosenModel>>

\* what only the settings page touches
settingsVars == <<freeFilterItem, modelsData, promptsData, modelOptions,
                  modelSelectValue, promptOptions, promptSelectValue, freeOnlyChecked,
                  settingsPending, lastChosenModel>>

\* what only the chat page touches
chatVars == <<conversationHistory, sessionMetrics, currentSystemPrompt, supportedParams,
              sessionStorage, chatHistory, messageInputValue, messageInputDisabled,
              submitButtonDisabled, pc, inFlight, messageBuffer, delivered,
              botMessageContent, botIdx, metricsCalls, turnBase, turnUser, turnEnd,
              lastRequest, nRequests, pendingPrompts, pendingParams, nChunks,
              nReloads, nClears>>

\* ------------------------------------------------------------------ bounds
\* a run is at most MaxSteps events long (handler steps, resolved fetches,
\* user and storage events, page loads)
MaxSteps == 7

Tick == nSteps < MaxSteps /\ nSteps' = nSteps + 1

\* ------------------------------------------------------------ text helpers
RECURSIVE Concat(_)
Concat(ss) == IF ss = <<>> THEN <<>> ELSE Head(ss) \o Concat(Tail(ss))

SENTINEL == <<"__METADATA__", ":">>

IsPrefix(p, s) == Len(p) <= Len(s) /\ SubSeq(s, 1, Len(p)) = p

\* String.prototype.startsWith
startsWith(s, p) == IsPrefix(p, s)

\* the first index at which p occurs in s, 0 when it does not
IndexOf(s, p) ==
    LET hits == {i \in 1..(Len(s) - Len(p) + 1) : SubSeq(s, i, i + Len(p) - 1) = p}
    IN IF hits = {} THEN 0 ELSE CHOOSE i \in hits : \A j \in hits : i <= j

\* String.prototype.replace(p, ''): the first occurrence of p is removed
replaceFirst(s, p) ==
    LET i == IndexOf(s, p)
    IN IF i = 0 THEN s
       ELSE SubSeq(s, 1, i - 1) \o SubSeq(s, i + Len(p), Len(s))

WS == " "

\* String.prototype.trim
RECURSIVE trimStart(_)
trimStart(s) == IF s # <<>> /\ Head(s) = WS THEN trimStart(Tail(s)) ELSE s

RECURSIVE trimEnd(_)
trimEnd(s) ==
    IF s # <<>> /\ s[Len(s)] = WS THEN trimEnd(SubSeq(s, 1, Len(s) - 1)) ELSE s

\* a slip trim could have: the value is taken as typed
trim_None(s) == s

trim(s) == trimEnd(trimStart(s))

\* ------------------------------------------------------------------- JSON
NoItem == <<>>
Item(v) == <<v>>

\* JSON.stringify / JSON.parse of the page's own values (arrays of
\* {role, content} with string fields, objects of numbers)
stringify(v) == [json |-> v]
parseStored(s) == s.json

Undefined == <<>>

UsageTotal3 == [model |-> Undefined, prompt_tokens |-> Undefined,
                completion_tokens |-> Undefined, total_tokens |-> <<3>>]
UsagePrompt5 == [model |-> Undefined, prompt_tokens |-> <<5>>,
                 completion_tokens |-> Undefined, total_tokens |-> Undefined]

\* JSON.parse of a metadata payload: the parsed value, or a SyntaxError
JSONparse(text) ==
    IF text = <<"{\"total_tokens\":3}">> THEN [kind |-> "object", obj |-> UsageTotal3]
    ELSE IF text = <<"{\"prompt_tokens\":5}">> THEN [kind |-> "object", obj |-> UsagePrompt5]
    ELSE IF text = <<"null">> THEN [kind |-> "null"]
    ELSE [kind |-> "SyntaxError"]

\* JavaScript truthiness of an optional numeric / string field
Truthy(f) == f # Undefined /\ f[1] # 0

\* ------------------------------------------------------- program constants
DEFAULT_MODEL == "openai/gpt-3.5-turbo"
DEFAULT_PROMPT == "default_system_prompt"
FallbackPrompt == <<"You are a helpful assistant.">>

OtherModel == "vendor/plain"
OtherPrompt == "pirate"

\* /api/models: supported_parameters of the models of the directory
ModelDirectory(id) ==
    IF id = DEFAULT_MODEL THEN {"temperature", "top_p"} ELSE {}

\* /api/prompts/<id>: data.content
PromptContent(id) ==
    IF id = DEFAULT_PROMPT THEN <<"Default prompt.">> ELSE <<"Pirate prompt.">>

\* what the user can type into the message input
Typed == {<<WS, "hi", WS>>, <<WS>>, <<>>}

\* what one reader.read() can deliver, decoded
Chunks ==
    { <<"Hi ">>, <<"there">>,
      SENTINEL \o <<"{\"total_tokens\":3}">>,
      SENTINEL \o <<"{\"prompt_tokens\":5}">>,
      SENTINEL \o <<"{bad json">>,
      SENTINEL \o <<"null">>,
      <<"see ">> \o SENTINEL \o <<"{\"total_tokens\":3}">> }

HttpError == "HTTP error! status: 500"
NetworkError == "Failed to fetch"
StreamErrors == {"network error"}

\* ---------------------------------------------------------------- helpers
ZeroMetrics == [prompt_tokens |-> 0, completion_tokens |-> 0, total_tokens |-> 0]

SystemMessage(prompt) == [role |-> "system", content |-> prompt]
UserMessage(text) == [role |-> "user", content |-> text]
AssistantMessage(text) == [role |-> "assistant", content |-> text]

\* marked.parse followed by DOMPurify.sanitize: the html of a markdown source
Render(md) == [html_of |-> md]

NoAnnotation == ""

\* the element appendMessage(role, text) creates
Element(role, text) ==
    [role |-> role,
     content |-> IF role = "user" THEN [text |-> text] ELSE Render(text),
     annotation |-> NoAnnotation]

NoElement == [role |-> "none", content |-> Render(<<>>), annotation |-> NoAnnotation]

\* appendMessage(role, text): one more child of #chat-history
appendMessage(dom, role, text) == Append(dom, Element(role, text))

saveConversationToSession(history, metrics) ==
    [history |-> Item(stringify(history)), metrics |-> Item(stringify(metrics))]

clearConversationSession == [history |-> NoItem, metrics |-> NoItem]

getCurrentModel(ls) == IF ls.model # NoItem THEN ls.model[1] ELSE DEFAULT_MODEL

getPromptId(ls) == IF ls.prompt # NoItem THEN ls.prompt[1] ELSE DEFAULT_PROMPT

Add(total, f) == IF Truthy(f) THEN total + f[1] ELSE total

\* updateMetrics(data), data an object: the session totals afterwards
updateMetrics(metrics, data) ==
    [prompt_tokens |-> Add(metrics.prompt_tokens, data.prompt_tokens),
     completion_tokens |-> Add(metrics.completion_tokens, data.completion_tokens),
     total_tokens |-> Add(metrics.total_tokens, data.total_tokens)]

TemperatureSlider == 7
TopPSlider == 9

\* a slip RequestBody could have: only the newest message is sent
RequestBody_LastOnly(history, model, params) ==
    [messages |-> <<history[Len(history)]>>, model |-> model,
     temperature |-> IF "temperature" \in params THEN <<TemperatureSlider>> ELSE Undefined,
     top_p |-> IF "top_p" \in params THEN <<TopPSlider>> ELSE Undefined]

\* the body of POST /api/chat
RequestBody(history, model, params) ==
    [messages |-> history, model |-> model,
     temperature |-> IF "temperature" \in params THEN <<TemperatureSlider>> ELSE Undefined,
     top_p |-> IF "top_p" \in params THEN <<TopPSlider>> ELSE Undefined]

NoRequest == [messages |-> <<>>, model |-> "", temperature |-> Undefined, top_p |-> Undefined]

\* ------------------------------------------------- the settings page: data
GoneModel == "acme/retired"
GonePrompt == "retired_prompt"

\* an entry of /api/models, its pricing fields absent or a price
ModelEntry(id, prompt, completion) ==
    [id |-> id, pricing |-> [prompt |-> prompt, completion |-> completion]]

\* an entry of /api/prompts
PromptEntry(id) == [id |-> id]

\* what GET /api/models can answer (data.data)
ModelLists ==
    { <<ModelEntry(OtherModel, <<0>>, Undefined), ModelEntry(DEFAULT_MODEL, <<2>>, <<3>>)>>,
      <<ModelEntry(OtherModel, <<0>>, <<0>>)>>,
      <<ModelEntry(DEFAULT_MODEL, <<2>>, <<3>>)>> }

\* what GET /api/prompts can answer (data.data)
PromptLists ==
    { <<PromptEntry(OtherPrompt), PromptEntry(DEFAULT_PROMPT)>>,
      <<PromptEntry(OtherPrompt)>>,
      <<>> }

\* what earlier visits can have left in localStorage
StoredSelections ==
    [model : {NoItem, Item(OtherModel), Item(GoneModel)},
     prompt : {NoItem, Item(OtherPrompt), Item(GonePrompt)}]

\* model.id.split('/')[0] of the ids above
providerOf(id) ==
    IF id = DEFAULT_MODEL THEN "openai"
    ELSE IF id = OtherModel THEN "vendor"
    ELSE "acme"

\* the providers above as Array.prototype.sort orders them
SortedProviders == <<"acme", "openai", "vendor">>

\* parseFloat(price) || 0
parsePrice(price) == IF price = Undefined THEN 0 ELSE price[1]

isFreeModel(model) ==
    parsePrice(model.pricing.prompt) = 0 /\ parsePrice(model.pricing.completion) = 0

Option(value, text) == [value |-> value, text |-> <<text>>]

\* String(freeOnlyFilter.checked), as setItem stores it
BoolString(b) == IF b THEN "true" ELSE "false"

\* the options populateModelSelect leaves: the filtered models grouped by
\* provider, the providers sorted, each group in the order of the list
RECURSIVE GroupedOptions(_, _)
GroupedOptions(providers, models) ==
    IF providers = <<>> THEN <<>>
    ELSE LET group == SelectSeq(models, LAMBDA m : providerOf(m.id) = Head(providers))
         IN [i \in 1..Len(group) |-> Option(group[i].id, group[i].id)]
                \o GroupedOptions(Tail(providers), models)

populateModelSelect(models, showFreeOnly) ==
    LET filteredModels == IF showFreeOnly THEN SelectSeq(models, isFreeModel) ELSE models
    IN IF Len(filteredModels) = 0 THEN <<Option("", "No models match filter")>>
       ELSE GroupedOptions(SortedProviders, filteredModels)

populatePromptSelect(prompts) ==
    IF Len(prompts) = 0 THEN <<Option("", "No prompts available")>>
    ELSE [i \in 1..Len(prompts) |-> Option(prompts[i].id, prompts[i].id)]

\* select.value once its options were replaced: the first option is selected
firstValue(options) == IF options = <<>> THEN "" ELSE options[1].value

\* select.querySelector(`option[value="${v}"]`)
hasOption(options, v) == \E i \in 1..Len(options) : options[i].value = v

\* a stored item that getItem returns as a truthy string
Saved(item) == item # NoItem /\ item[1] # ""

\* a slip restoreSelectedModel could have: the default it falls back to is
\* stored, as restoreSelectedPrompt does
restoreSelectedModel_StoresDefault(options, value, savedModel) ==
    IF Saved(savedModel) /\ hasOption(options, savedModel[1])
    THEN [value |-> savedModel[1], stored |-> savedModel]
    ELSE IF hasOption(options, DEFAULT_MODEL)
    THEN [value |-> DEFAULT_MODEL, stored |-> Item(DEFAULT_MODEL)]
    ELSE [value |-> value, stored |-> savedModel]

\* restoreSelectedModel: the select's value and the stored model afterwards
restoreSelectedModel(options, value, savedModel) ==
    IF Saved(savedModel) /\ hasOption(options, savedModel[1])
    THEN [value |-> savedModel[1], stored |-> savedModel]
    ELSE IF hasOption(options, DEFAULT_MODEL)
    THEN [value |-> DEFAULT_MODEL, stored |-> savedModel]
    ELSE [value |-> value, stored |-> savedModel]

\* a slip restoreSelectedPrompt could have: the default is selected but not
\* stored, as in restoreSelectedModel
restoreSelectedPrompt_NoStore(options, value, savedPrompt) ==
    IF Saved(savedPrompt) /\ hasOption(options, savedPrompt[1])
    THEN [value |-> savedPrompt[1], stored |-> savedPrompt]
    ELSE IF hasOption(options, DEFAULT_PROMPT)
    THEN [value |-> DEFAULT_PROMPT, stored |-> savedPrompt]
    ELSE [value |-> value, stored |-> savedPrompt]

\* restoreSelectedPrompt: the select's value and the stored prompt afterwards
restoreSelectedPrompt(options, value, savedPrompt) ==
    IF Saved(savedPrompt) /\ hasOption(options, savedPrompt[1])
    THEN [value |-> savedPrompt[1], stored |-> savedPrompt]
    ELSE IF hasOption(options, DEFAULT_PROMPT)
    THEN [value |-> DEFAULT_PROMPT, stored |-> Item(DEFAULT_PROMPT)]
    ELSE [value |-> value, stored |-> savedPrompt]

\* --------------------------------------------------------------- page load
\* restoreConversationFromSession: the return value, and what it leaves
restoredFromSession(ss) == ss.history # NoItem

RestoredHistory(ss) ==
    IF ss.history # NoItem THEN parseStored(ss.history[1]) ELSE <<>>

RestoredMetrics(ss) ==
    IF ss.history # NoItem THEN ZeroMetrics
    ELSE IF ss.metrics # NoItem THEN parseStored(ss.metrics[1])
    ELSE ZeroMetrics

RECURSIVE RenderHistory(_, _)
RenderHistory(dom, msgs) ==
    IF msgs = <<>> THEN dom
    ELSE LET m == Head(msgs)
             d == IF m.role = "user" THEN appendMessage(dom, "user", m.content)
                  ELSE IF m.role = "assistant" THEN appendMessage(dom, "bot", m.content)
                  ELSE dom
         IN RenderHistory(d, Tail(msgs))

RestoredDOM(ss) == RenderHistory(<<>>, RestoredHistory(ss))

\* the chat page right after its load, localStorage holding these selections
ChatPageLoaded(stored) ==
    /\ sessionStorage = clearConversationSession
    /\ localStorage = stored
    /\ conversationHistory = RestoredHistory(sessionStorage)
    /\ sessionMetrics = RestoredMetrics(sessionStorage)
    /\ chatHistory = RestoredDOM(sessionStorage)
    /\ currentSystemPrompt = FallbackPrompt
    /\ supportedParams = {}
    /\ messageInputValue = <<>>
    /\ messageInputDisabled = FALSE
    /\ submitButtonDisabled = FALSE
    /\ pc = "idle"
    /\ inFlight = 0
    /\ messageBuffer = <<>>
    /\ delivered = <<>>
    /\ botMessageContent = NoElement
    /\ botIdx = 0
    /\ metricsCalls = <<>>
    /\ turnBase = <<>>
    /\ turnUser = <<>>
    /\ turnEnd = "none"
    /\ lastRequest = NoRequest
    /\ nRequests = 0
    /\ pendingPrompts = <<[promptId |-> getPromptId(localStorage),
                           skipHistoryReset |-> restoredFromSession(sessionStorage)]>>
    /\ pendingParams = <<[model |-> getCurrentModel(localStorage)]>>
    /\ nChunks = 0
    /\ nReloads = 0
    /\ nClears = 0
    /\ nSteps = 0

\* the settings page right after its load (lines 95-101): the filter box is
\* set from its stored item, loadModels and loadPrompts await their fetches;
\* the selects, filled by the page's markup, offer no model and no prompt yet
SettingsPageLoaded ==
    /\ freeOnlyChecked = (freeFilterItem = Item("true"))
    /\ modelsData = <<>>
    /\ promptsData = <<>>
    /\ modelOptions = <<>>
    /\ modelSelectValue = ""
    /\ promptOptions = <<>>
    /\ promptSelectValue = ""
    /\ settingsPending = {"models", "prompts"}
    /\ lastChosenModel = NoItem

Init ==
    /\ ChatPageLoaded([model |-> NoItem, prompt |-> NoItem])
    /\ freeFilterItem = NoItem
    /\ SettingsPageLoaded

\* ------------------------------------------------------ the submit handler
\* a slip ControlsOnSubmit could have: the input is emptied but left enabled
ControlsOnSubmit_InputEnabled ==
    [value |-> <<>>, inputDisabled |-> FALSE, buttonDisabled |-> TRUE]

\* lines 323-325: the input is emptied, input and button are disabled
ControlsOnSubmit == [value |-> <<>>, inputDisabled |-> TRUE, buttonDisabled |-> TRUE]

\* a slip ControlsOnFinally could have: the button is left disabled
ControlsOnFinally_ButtonDisabled == [inputDisabled |-> FALSE, buttonDisabled |-> TRUE]

\* the finally block
ControlsOnFinally == [inputDisabled |-> FALSE, buttonDisabled |-> FALSE]

\* messageInput.value when the submit event fires: what the user typed since
\* the last event (a disabled input takes no typing and keeps its value)
ValueAtSubmit(text) == IF messageInputDisabled THEN messageInputValue ELSE text

\* a submit event whose trimmed message is empty: the handler returns at once
SubmitEmpty(text) ==
    /\ Tick
    /\ UNCHANGED settingsVars
    /\ trim(ValueAtSubmit(text)) = <<>>
    /\ messageInputValue' = ValueAtSubmit(text)
    /\ UNCHANGED <<conversationHistory, sessionMetrics, currentSystemPrompt,
                   supportedParams, sessionStorage, localStorage, chatHistory,
                   messageInputDisabled, submitButtonDisabled, pc, inFlight,
                   messageBuffer, delivered, botMessageContent, botIdx, metricsCalls,
                   turnBase, turnUser, turnEnd, lastRequest, nRequests, pendingPrompts,
                   pendingParams, nChunks, nReloads, nClears>>

\* a slip issueRequest could have: the request issued a second time
issueRequest_Twice(n) == n + 2

\* line 362: the handler calls fetch('/api/chat') once, in no loop; the
\* number of requests issued afterwards
issueRequest(n) == n + 1

\* a submit event with a message: the handler runs up to its await of fetch
Submit(text) ==
    LET message == trim(ValueAtSubmit(text))
        model == getCurrentModel(localStorage)
        history == Append(conversationHistory, UserMessage(message))
        dom == appendMessage(appendMessage(chatHistory, "user", message), "bot", <<>>)
    IN /\ Tick
       /\ UNCHANGED settingsVars
       /\ message # <<>>
       /\ messageInputValue' = ControlsOnSubmit.value
       /\ messageInputDisabled' = ControlsOnSubmit.inputDisabled
       /\ submitButtonDisabled' = ControlsOnSubmit.buttonDisabled
       /\ conversationHistory' = history
       /\ sessionStorage' = saveConversationToSession(history, sessionMetrics)
       /\ chatHistory' = dom
       /\ botMessageContent' = Element("bot", <<>>)
       /\ botIdx' = Len(dom)
       /\ messageBuffer' = <<>>
       /\ delivered' = <<>>
       /\ metricsCalls' = <<>>
       /\ turnBase' = conversationHistory
       /\ turnUser' = message
       /\ turnEnd' = "none"
       /\ lastRequest' = RequestBody(history, model, supportedParams)
       /\ nRequests' = issueRequest(nRequests)
       /\ inFlight' = inFlight + 1
       /\ pc' = "fetch"
       /\ UNCHANGED <<sessionMetrics, currentSystemPrompt, supportedParams,
                      localStorage, pendingPrompts, pendingParams,
                      nChunks, nReloads, nClears>>

\* botMessageContent.innerHTML += the error span
Annotate(element, message) == [element EXCEPT !.annotation = message]

\* #chat-history after a write to the bot element (it shows while attached)
Shown(dom, idx, element) == IF idx = 0 THEN dom ELSE [dom EXCEPT ![idx] = element]

\* the finally block, after which the handler's locals are gone
Finally(how) ==
    /\ messageInputDisabled' = ControlsOnFinally.inputDisabled
    /\ submitButtonDisabled' = ControlsOnFinally.buttonDisabled
    /\ inFlight' = inFlight - 1
    /\ pc' = "idle"
    /\ turnEnd' = how
    /\ messageBuffer' = <<>>
    /\ delivered' = <<>>
    /\ metricsCalls' = <<>>
    /\ botIdx' = 0
    /\ turnBase' = <<>>
    /\ turnUser' = <<>>
    /\ lastRequest' = NoRequest

\* the catch block followed by the finally block
CatchFinally(message, how) ==
    /\ botMessageContent' = Annotate(botMessageContent, message)
    /\ chatHistory' = Shown(chatHistory, botIdx, botMessageContent')
    /\ Finally(how)

\* response.ok of a status
responseOk(status) == status \in 200..299

\* what the handler does with a response of this status: read it, or throw
AfterFetch(status) == IF responseOk(status) THEN "read" ELSE "throw"

\* fetch resolves with a response
FetchResponse(status) ==
    /\ Tick
    /\ UNCHANGED settingsVars
    /\ pc = "fetch"
    /\ IF AfterFetch(status) = "read"
       THEN /\ pc' = "read"
            /\ UNCHANGED <<chatHistory, messageInputDisabled, submitButtonDisabled,
                           inFlight, turnEnd, messageBuffer, delivered, metricsCalls,
                           botMessageContent, botIdx, turnBase, turnUser, lastRequest>>
       ELSE CatchFinally(HttpError, "http")
    /\ UNCHANGED <<conversationHistory, sessionMetrics, currentSystemPrompt,
                   supportedParams, sessionStorage, localStorage, messageInputValue,
                   nRequests, pendingPrompts, pendingParams,
                   nChunks, nReloads, nClears>>

\* fetch rejects (no response at all)
FetchReject ==
    /\ Tick
    /\ UNCHANGED settingsVars
    /\ pc = "fetch"
    /\ CatchFinally(NetworkError, "network")
    /\ UNCHANGED <<conversationHistory, sessionMetrics, currentSystemPrompt,
                   supportedParams, sessionStorage, localStorage, messageInputValue,
                   nRequests, pendingPrompts, pendingParams,
                   nChunks, nReloads, nClears>>

\* a slip isMetadataFrame could have: includes() in place of startsWith()
isMetadataFrame_Anywhere(chunk) == IndexOf(chunk, SENTINEL) # 0

\* chunk.startsWith('__METADATA__:')
isMetadataFrame(chunk) == startsWith(chunk, SENTINEL)

\* a slip MetadataBranch could have: no try/catch around the parse and the call
MetadataBranch_NoCatch(metrics, chunk) ==
    LET metadataJson == replaceFirst(chunk, SENTINEL)
        usageData == JSONparse(metadataJson)
    IN [calls |-> IF usageData.kind = "SyntaxError" THEN <<>> ELSE <<usageData>>,
        metrics |-> IF usageData.kind = "object"
                    THEN updateMetrics(metrics, usageData.obj) ELSE metrics,
        escapes |-> usageData.kind \in {"SyntaxError", "null"}]

\* the try block of the metadata branch: the updateMetrics calls made (with
\* what JSON.parse returned), the totals afterwards, and whether an exception
\* leaves the branch (the catch takes a SyntaxError, and the TypeError of
\* updateMetrics(null) reading data.model)
MetadataBranch(metrics, chunk) ==
    LET metadataJson == replaceFirst(chunk, SENTINEL)
        usageData == JSONparse(metadataJson)
    IN [calls |-> IF usageData.kind = "SyntaxError" THEN <<>> ELSE <<usageData>>,
        metrics |-> IF usageData.kind = "object"
                    THEN updateMetrics(metrics, usageData.obj) ELSE metrics,
        escapes |-> FALSE]

\* a slip AppendChunk could have: the chunk put in front of the buffer
AppendChunk_Prepend(buffer, chunk) == chunk \o buffer

\* messageBuffer += chunk
AppendChunk(buffer, chunk) == buffer \o chunk

\* a slip RenderInto could have: only the first chunk is ever rendered
RenderInto_FirstOnly(element, buffer) ==
    IF element.content = Render(<<>>) THEN [element EXCEPT !.content = Render(buffer)]
    ELSE element

\* botMessageContent.innerHTML = the rendered buffer
RenderInto(element, buffer) == [element EXCEPT !.content = Render(buffer)]

\* reader.read() resolves with a chunk: one turn of the loop
ReadChunk(chunk) ==
    /\ Tick
    /\ UNCHANGED settingsVars
    /\ pc = "read"
    /\ nChunks' = nChunks + 1
    /\ IF isMetadataFrame(chunk)
       THEN LET b == MetadataBranch(sessionMetrics, chunk)
            IN /\ sessionMetrics' = b.metrics
               /\ IF b.escapes
                  THEN CatchFinally("metadata", "stream")
                  ELSE /\ delivered' = Append(delivered, chunk)
                       /\ metricsCalls' = metricsCalls \o b.calls
                       /\ UNCHANGED <<chatHistory, messageInputDisabled,
                                      submitButtonDisabled, inFlight, pc, turnEnd,
                                      messageBuffer, botMessageContent, botIdx,
                                      turnBase, turnUser, lastRequest>>
       ELSE /\ delivered' = Append(delivered, chunk)
            /\ messageBuffer' = AppendChunk(messageBuffer, chunk)
            /\ botMessageContent' = RenderInto(botMessageContent, messageBuffer')
            /\ chatHistory' = Shown(chatHistory, botIdx, botMessageContent')
            /\ UNCHANGED <<sessionMetrics, metricsCalls, messageInputDisabled,
                           submitButtonDisabled, inFlight, pc, turnEnd, botIdx,
                           turnBase, turnUser, lastRequest>>
    /\ UNCHANGED <<conversationHistory, currentSystemPrompt, supportedParams,
                   sessionStorage, localStorage, messageInputValue, nRequests,
                   pendingPrompts, pendingParams,
                   nReloads, nClears>>

\* a slip commitAssistant could have: no test of the buffer
commitAssistant_Always(history, buffer) == Append(history, AssistantMessage(buffer))

\* lines 426-429: the history after the loop ended with this buffer
commitAssistant(history, buffer) ==
    IF buffer # <<>> THEN Append(history, AssistantMessage(buffer)) ELSE history

\* reader.read() resolves with done: the loop ends, then finally
ReadDone ==
    /\ Tick
    /\ UNCHANGED settingsVars
    /\ pc = "read"
    /\ conversationHistory' = commitAssistant(conversationHistory, messageBuffer)
    /\ sessionStorage' = IF messageBuffer # <<>>
                         THEN saveConversationToSession(conversationHistory', sessionMetrics)
                         ELSE sessionStorage
    /\ Finally("done")
    /\ UNCHANGED <<sessionMetrics, currentSystemPrompt, supportedParams, localStorage,
                   chatHistory, botMessageContent, messageInputValue, nRequests,
                   pendingPrompts, pendingParams,
                   nChunks, nReloads, nClears>>

\* reader.read() rejects: catch, then finally
ReadThrow(reason) ==
    /\ Tick
    /\ UNCHANGED settingsVars
    /\ pc = "read"
    /\ CatchFinally(reason, "stream")
    /\ UNCHANGED <<conversationHistory, sessionMetrics, currentSystemPrompt,
                   supportedParams, sessionStorage, localStorage, messageInputValue,
                   nRequests, pendingPrompts, pendingParams,
                   nChunks, nReloads, nClears>>

\* ------------------------------------------------------- the other flows
\* a slip historyAfterClear could have: the history left empty
historyAfterClear_Empty(prompt) == <<>>

\* lines 71-74: the history clearChat leaves
historyAfterClear(prompt) == <<SystemMessage(prompt)>>

\* clearChat (the clear button stays enabled during a request)
clearChat ==
    /\ Tick
    /\ UNCHANGED settingsVars
    /\ nClears' = nClears + 1
    /\ chatHistory' = <<>>
    /\ botIdx' = 0
    /\ conversationHistory' = historyAfterClear(currentSystemPrompt)
    /\ sessionMetrics' = ZeroMetrics
    /\ sessionStorage' = clearConversationSession
    /\ UNCHANGED <<currentSystemPrompt, supportedParams, localStorage,
                   messageInputValue, messageInputDisabled, submitButtonDisabled, pc,
                   inFlight, messageBuffer, delivered, botMessageContent, metricsCalls,
                   turnBase, turnUser, turnEnd, lastRequest, nRequests, pendingPrompts,
                   pendingParams, nChunks, nReloads>>

\* a slip historyAfterLoad could have: the flag is not looked at
historyAfterLoad_AlwaysReset(history, prompt, skipHistoryReset) == <<SystemMessage(prompt)>>

\* what loadSystemPrompt(skipHistoryReset) leaves in conversationHistory
historyAfterLoad(history, prompt, skipHistoryReset) ==
    IF ~skipHistoryReset THEN <<SystemMessage(prompt)>> ELSE history

\* currentSystemPrompt after the fetch of loadSystemPrompt ended this way
promptAfterLoad(current, promptId, outcome) ==
    IF outcome = "content" THEN PromptContent(promptId)
    ELSE IF outcome = "nocontent" THEN current
    ELSE FallbackPrompt

PromptOutcomes == {"content", "nocontent", "error"}

RemoveAt(seq, i) == SubSeq(seq, 1, i - 1) \o SubSeq(seq, i + 1, Len(seq))

\* the settings page (another tab) wrote the selected model: the listener
\* starts updateParameterControls, which reads the model and awaits its fetch
StorageEventModel(newValue) ==
    /\ Tick
    /\ UNCHANGED settingsVars
    /\ localStorage.model # newValue
    /\ localStorage' = [localStorage EXCEPT !.model = newValue]
    /\ pendingParams' = Append(pendingParams, [model |-> getCurrentModel(localStorage')])
    /\ UNCHANGED <<conversationHistory, sessionMetrics, currentSystemPrompt,
                   supportedParams, sessionStorage, chatHistory, messageInputValue,
                   messageInputDisabled, submitButtonDisabled, pc, inFlight,
                   messageBuffer, delivered, botMessageContent, botIdx, metricsCalls,
                   turnBase, turnUser,
                   turnEnd, lastRequest, nRequests, pendingPrompts,
                   nChunks, nReloads, nClears>>

\* the settings page wrote the selected prompt: the listener starts
\* loadSystemPrompt(), which reads the prompt id and awaits its fetch
StorageEventPrompt(newValue) ==
    /\ Tick
    /\ UNCHANGED settingsVars
    /\ localStorage.prompt # newValue
    /\ localStorage' = [localStorage EXCEPT !.prompt = newValue]
    /\ pendingPrompts' = Append(pendingPrompts,
                                [promptId |-> getPromptId(localStorage'),
                                 skipHistoryReset |-> FALSE])
    /\ UNCHANGED <<conversationHistory, sessionMetrics, currentSystemPrompt,
                   supportedParams, sessionStorage, chatHistory, messageInputValue,
                   messageInputDisabled, submitButtonDisabled, pc, inFlight,
                   messageBuffer, delivered, botMessageContent, botIdx, metricsCalls,
                   turnBase, turnUser,
                   turnEnd, lastRequest, nRequests, pendingParams,
                   nChunks, nReloads, nClears>>

\* the fetch of a suspended loadSystemPrompt ends: the rest of the function
loadSystemPrompt(i, outcome) ==
    /\ Tick
    /\ UNCHANGED settingsVars
    /\ i \in 1..Len(pendingPrompts)
    /\ LET call == pendingPrompts[i]
       IN /\ currentSystemPrompt' =
                 promptAfterLoad(currentSystemPrompt, call.promptId, outcome)
          /\ conversationHistory' =
                 historyAfterLoad(conversationHistory, currentSystemPrompt',
                                  call.skipHistoryReset)
    /\ pendingPrompts' = RemoveAt(pendingPrompts, i)
    /\ UNCHANGED <<sessionMetrics, supportedParams, sessionStorage, localStorage,
                   chatHistory, messageInputValue, messageInputDisabled,
                   submitButtonDisabled, pc, inFlight, messageBuffer, delivered,
                   botMessageContent, botIdx, metricsCalls, turnBase, turnUser, turnEnd, lastRequest, nRequests,
                   pendingParams, nChunks, nReloads, nClears>>

\* supportedParams after the fetch of updateParameterControls ended this way
paramsAfterLookup(current, model, outcome) ==
    IF outcome = "ok" THEN ModelDirectory(model) ELSE current

LookupOutcomes == {"ok", "error"}

\* the fetch of a suspended updateParameterControls ends
updateParameterControls(i, outcome) ==
    /\ Tick
    /\ UNCHANGED settingsVars
    /\ i \in 1..Len(pendingParams)
    /\ supportedParams' = paramsAfterLookup(supportedParams, pendingParams[i].model, outcome)
    /\ pendingParams' = RemoveAt(pendingParams, i)
    /\ UNCHANGED <<conversationHistory, sessionMetrics, currentSystemPrompt,
                   sessionStorage, localStorage, chatHistory, messageInputValue,
                   messageInputDisabled, submitButtonDisabled, pc, inFlight,
                   messageBuffer, delivered, botMessageContent, botIdx, metricsCalls,
                   turnBase, turnUser,
                   turnEnd, lastRequest, nRequests, pendingPrompts,
                   nChunks, nReloads, nClears>>

\* the page is left and loaded again (settings and back, or a reload): the
\* DOMContentLoaded listener runs on what the storages hold
Reload ==
    /\ Tick
    /\ UNCHANGED settingsVars
    /\ nReloads' = nReloads + 1
    /\ conversationHistory' = RestoredHistory(sessionStorage)
    /\ sessionMetrics' = RestoredMetrics(sessionStorage)
    /\ chatHistory' = RestoredDOM(sessionStorage)
    /\ currentSystemPrompt' = FallbackPrompt
    /\ supportedParams' = {}
    /\ messageInputValue' = <<>>
    /\ messageInputDisabled' = FALSE
    /\ submitButtonDisabled' = FALSE
    /\ pc' = "idle"
    /\ inFlight' = 0
    /\ messageBuffer' = <<>>
    /\ delivered' = <<>>
    /\ botMessageContent' = NoElement
    /\ botIdx' = 0
    /\ metricsCalls' = <<>>
    /\ turnBase' = <<>>
    /\ turnUser' = <<>>
    /\ turnEnd' = "none"
    /\ pendingPrompts' = <<[promptId |-> getPromptId(localStorage),
                            skipHistoryReset |-> restoredFromSession(sessionStorage)]>>
    /\ pendingParams' = <<[model |-> getCurrentModel(localStorage)]>>
    /\ lastRequest' = NoRequest
    /\ UNCHANGED <<sessionStorage, localStorage, nRequests,
                   nChunks, nClears>>

Statuses == {200, 500}

Next ==
    \/ \E text \in Typed : SubmitEmpty(text)
    \/ \E text \in Typed : Submit(text)
    \/ \E status \in Statuses : FetchResponse(status)
    \/ FetchReject
    \/ \E chunk \in Chunks : ReadChunk(chunk)
    \/ ReadDone
    \/ \E reason \in StreamErrors : ReadThrow(reason)
    \/ clearChat
    \/ \E v \in {NoItem, Item(OtherModel)} : StorageEventModel(v)
    \/ \E v \in {NoItem, Item(OtherPrompt)} : StorageEventPrompt(v)
    \/ \E i \in 1..Len(pendingPrompts), o \in PromptOutcomes : loadSystemPrompt(i, o)
    \/ \E i \in 1..Len(pendingParams), o \in LookupOutcomes : updateParameterControls(i, o)
    \/ Reload

Spec == Init /\ [][Next]_vars

\* ================================================== the settings page
\* the settings page opened, localStorage as earlier visits left it
SettingsInit ==
    /\ \E stored \in StoredSelections : ChatPageLoaded(stored)
    /\ freeFilterItem \in {NoItem, Item("true"), Item("false")}
    /\ SettingsPageLoaded

\* how a fetch of the settings page can end: with a list, or failing
Loaded(list) == [ok |-> TRUE, data |-> list]
LoadFailed == [ok |-> FALSE, data |-> <<>>]

\* the change listeners of the two selects: a non-empty value is stored
storedAfterChange(stored, selected) == IF selected # "" THEN Item(selected) ELSE stored

\* the fetch of loadModels ends: populate and restore, or the catch block
loadModels(outcome) ==
    /\ Tick
    /\ "models" \in settingsPending
    /\ settingsPending' = settingsPending \ {"models"}
    /\ IF outcome.ok
       THEN LET options == populateModelSelect(outcome.data, freeOnlyChecked)
                r == restoreSelectedModel(options, firstValue(options), localStorage.model)
            IN /\ modelsData' = outcome.data
               /\ modelOptions' = options
               /\ modelSelectValue' = r.value
               /\ localStorage' = [localStorage EXCEPT !.model = r.stored]
       ELSE /\ modelOptions' = <<Option("", "Failed to load models")>>
            /\ modelSelectValue' = firstValue(modelOptions')
            /\ UNCHANGED <<modelsData, localStorage>>
    /\ UNCHANGED <<freeFilterItem, promptsData, promptOptions, promptSelectValue,
                   freeOnlyChecked, lastChosenModel>>
    /\ UNCHANGED chatVars

\* the fetch of loadPrompts ends: populate and restore, or the catch block
loadPrompts(outcome) ==
    /\ Tick
    /\ "prompts" \in settingsPending
    /\ settingsPending' = settingsPending \ {"prompts"}
    /\ IF outcome.ok
       THEN LET options == populatePromptSelect(outcome.data)
                r == restoreSelectedPrompt(options, firstValue(options), localStorage.prompt)
            IN /\ promptsData' = outcome.data
               /\ promptOptions' = options
               /\ promptSelectValue' = r.value
               /\ localStorage' = [localStorage EXCEPT !.prompt = r.stored]
       ELSE /\ promptOptions' = <<Option("", "Failed to load prompts")>>
            /\ promptSelectValue' = firstValue(promptOptions')
            /\ UNCHANGED <<promptsData, localStorage>>
    /\ UNCHANGED <<freeFilterItem, modelsData, modelOptions, modelSelectValue,
                   freeOnlyChecked, lastChosenModel>>
    /\ UNCHANGED chatVars

\* the user picks another option of the model select: its change listener
modelSelectChange(selectedModel) ==
    /\ Tick
    /\ hasOption(modelOptions, selectedModel)
    /\ selectedModel # modelSelectValue
    /\ modelSelectValue' = selectedModel
    /\ localStorage' =
           [localStorage EXCEPT !.model = storedAfterChange(localStorage.model, selectedModel)]
    /\ lastChosenModel' = IF selectedModel # "" THEN Item(selectedModel) ELSE lastChosenModel
    /\ UNCHANGED <<freeFilterItem, modelsData, promptsData, modelOptions, promptOptions,
                   promptSelectValue, freeOnlyChecked, settingsPending>>
    /\ UNCHANGED chatVars

\* the user picks another option of the prompt select: its change listener
promptSelectChange(selectedPrompt) ==
    /\ Tick
    /\ hasOption(promptOptions, selectedPrompt)
    /\ selectedPrompt # promptSelectValue
    /\ promptSelectValue' = selectedPrompt
    /\ localStorage' =
           [localStorage EXCEPT !.prompt = storedAfterChange(localStorage.prompt, selectedPrompt)]
    /\ UNCHANGED <<freeFilterItem, modelsData, promptsData, modelOptions, modelSelectValue,
                   promptOptions, freeOnlyChecked, settingsPending, lastChosenModel>>
    /\ UNCHANGED chatVars

\* the user toggles the free-only box: its change listener
freeOnlyFilterChange ==
    LET checked == ~freeOnlyChecked
        options == populateModelSelect(modelsData, checked)
        r == restoreSelectedModel(options, firstValue(options), localStorage.model)
    IN /\ Tick
       /\ freeOnlyChecked' = checked
       /\ freeFilterItem' = Item(BoolString(checked))
       /\ modelOptions' = options
       /\ modelSelectValue' = r.value
       /\ localStorage' = [localStorage EXCEPT !.model = r.stored]
       /\ UNCHANGED <<modelsData, promptsData, promptOptions, promptSelectValue,
                      settingsPending, lastChosenModel>>
       /\ UNCHANGED chatVars

\* the settings page is loaded again
SettingsReload ==
    /\ Tick
    /\ freeOnlyChecked' = (freeFilterItem = Item("true"))
    /\ modelsData' = <<>>
    /\ promptsData' = <<>>
    /\ modelOptions' = <<>>
    /\ modelSelectValue' = ""
    /\ promptOptions' = <<>>
    /\ promptSelectValue' = ""
    /\ settingsPending' = {"models", "prompts"}
    /\ UNCHANGED <<freeFilterItem, localStorage, lastChosenModel>>
    /\ UNCHANGED chatVars

ModelValues == {"", DEFAULT_MODEL, OtherModel}
PromptValues == {"", DEFAULT_PROMPT, OtherPrompt}

SettingsNext ==
    \/ \E list \in ModelLists : loadModels(Loaded(list))
    \/ loadModels(LoadFailed)
    \/ \E list \in PromptLists : loadPrompts(Loaded(list))
    \/ loadPrompts(LoadFailed)
    \/ \E v \in ModelValues : modelSelectChange(v)
    \/ \E v \in PromptValues : promptSelectChange(v)
    \/ freeOnlyFilterChange
    \/ SettingsReload

SettingsSpec == SettingsInit /\ [][SettingsNext]_vars

\* ================================================================= claims
Last(seq) == seq[Len(seq)]

\* the steps of the submit handler, as seen from outside
ChunkStep == pc = "read" /\ nChunks' = nChunks + 1
DoneStep == pc = "read" /\ pc' = "idle" /\ turnEnd' = "done"
HttpErrorStep == pc = "fetch" /\ pc' = "idle" /\ turnEnd' = "http"
StreamErrorStep == pc = "read" /\ pc' = "idle" /\ turnEnd' = "stream"

\* the chunks of a stream that do not begin with the sentinel, in order
ContentOnly(chunks) == SelectSeq(chunks, LAMBDA c : ~IsPrefix(SENTINEL, c))

\* what follows the sentinel in a chunk that begins with it
Payload(chunk) == SubSeq(chunk, Len(SENTINEL) + 1, Len(chunk))

\* a metadata frame whose payload does not parse, or parses to null (on which
\* updateMetrics throws)
Malformed(chunk) ==
    /\ IsPrefix(SENTINEL, chunk)
    /\ JSONparse(Payload(chunk)).kind \in {"SyntaxError", "null"}

HasRole(history, role) == \E i \in 1..Len(history) : history[i].role = role

\* C1: when the stream ends with done, the message buffer is the
\* concatenation, in arrival order, of exactly the delivered chunks that do
\* not begin with the sentinel, and a committed assistant message has that
\* content.
C1_FinalBufferIsContent ==
    [][DoneStep =>
         /\ messageBuffer = Concat(ContentOnly(delivered))
         /\ messageBuffer # <<>> =>
              Last(conversationHistory') =
                  [role |-> "assistant", content |-> Concat(ContentOnly(delivered))]]_vars

\* C1 witness: one turn of three chunks, "Hi ", a metadata frame of
\* total_tokens 3, "there", has ended with "Hi there" committed.
C1_Witness ==
    /\ turnEnd = "done"
    /\ nRequests = 1
    /\ nChunks = 3
    /\ sessionMetrics.total_tokens = 3
    /\ conversationHistory # <<>>
    /\ Last(conversationHistory) = [role |-> "assistant", content |-> <<"Hi ", "there">>]

\* C2: a delivered chunk is handled as a metadata frame exactly when it
\* begins with the sentinel: such a chunk leaves the buffer and the rendered
\* content alone and, if its payload parses to an object, makes exactly one
\* updateMetrics call with that object; any other chunk (also one holding the
\* sentinel further on) is appended to the buffer and makes no call.
C2_MetadataIffPrefix ==
    [][(ChunkStep /\ Len(delivered') = Len(delivered) + 1) =>
         LET chunk == Last(delivered')
             parsed == JSONparse(Payload(chunk))
         IN IF IsPrefix(SENTINEL, chunk)
            THEN /\ messageBuffer' = messageBuffer
                 /\ botMessageContent' = botMessageContent
                 /\ chatHistory' = chatHistory
                 /\ parsed.kind = "object" =>
                      /\ metricsCalls' = Append(metricsCalls, parsed)
                      /\ Last(metricsCalls').obj = parsed.obj
            ELSE /\ messageBuffer' = messageBuffer \o chunk
                 /\ metricsCalls' = metricsCalls
                 /\ sessionMetrics' = sessionMetrics]_vars

\* C2 witness: a chunk with the sentinel after "see " went to the buffer,
\* then a well-formed metadata frame made one updateMetrics call.
C2_Witness ==
    /\ pc = "read"
    /\ delivered = << <<"see ">> \o SENTINEL \o <<"{\"total_tokens\":3}">>,
                      SENTINEL \o <<"{\"total_tokens\":3}">> >>
    /\ messageBuffer = <<"see ">> \o SENTINEL \o <<"{\"total_tokens\":3}">>
    /\ Len(metricsCalls) = 1
    /\ metricsCalls[1].obj = UsageTotal3

\* C3: a malformed metadata frame is dropped: the step that takes it leaves
\* the buffer, the session totals and the rendered content alone and the
\* handler stays in its loop (no chunk ends the turn); after it, a content
\* chunk is still appended and rendered, and done still commits the buffer.
C3_MalformedDropped ==
    [][/\ ChunkStep =>
            /\ pc' = "read"
            /\ turnEnd' = turnEnd
            /\ inFlight' = inFlight
            /\ messageInputDisabled'
            /\ Len(delivered') = Len(delivered) + 1
            /\ LET chunk == Last(delivered')
               IN /\ Malformed(chunk) =>
                       /\ messageBuffer' = messageBuffer
                       /\ sessionMetrics' = sessionMetrics
                       /\ botMessageContent' = botMessageContent
                       /\ chatHistory' = chatHistory
                  /\ ((\E i \in 1..Len(delivered) : Malformed(delivered[i]))
                        /\ ~IsPrefix(SENTINEL, chunk)) =>
                       /\ messageBuffer' = messageBuffer \o chunk
                       /\ botMessageContent'.content = Render(messageBuffer')
                       /\ botMessageContent'.annotation = NoAnnotation
       /\ (DoneStep /\ \E i \in 1..Len(delivered) : Malformed(delivered[i])) =>
            conversationHistory' =
                IF messageBuffer = <<>> THEN conversationHistory
                ELSE Append(conversationHistory,
                            [role |-> "assistant", content |-> messageBuffer])]_vars

\* C3 witness: "{bad json" came as a metadata frame, then "Hi " was appended
\* and rendered, the totals still zero and the handler still reading.
C3_Witness ==
    /\ pc = "read"
    /\ delivered = <<SENTINEL \o <<"{bad json">>, <<"Hi ">> >>
    /\ messageBuffer = <<"Hi ">>
    /\ botMessageContent.content = Render(<<"Hi ">>)
    /\ sessionMetrics = ZeroMetrics

\* C4: when the stream ends with done, the history gains exactly the one
\* message {assistant, buffer} if the buffer is not empty, and is left as it
\* is if the buffer is empty.
C4_CommitOnDone ==
    [][DoneStep =>
         conversationHistory' =
             IF messageBuffer # <<>>
             THEN conversationHistory \o
                      <<[role |-> "assistant", content |-> messageBuffer]>>
             ELSE conversationHistory]_vars

\* C4 witness: a stream of one metadata frame only has ended with done and
\* the history holds no assistant message.
C4_Witness ==
    /\ turnEnd = "done"
    /\ nRequests = 1
    /\ sessionMetrics.total_tokens = 3
    /\ ~HasRole(conversationHistory, "assistant")
    /\ HasRole(conversationHistory, "user")

\* C5: when POST /api/chat answers with a non-success status, no stream is
\* read, no assistant message is appended, every history entry that existed
\* before the submit is still there unchanged, and the bot element of the
\* turn carries the error.
C5_HttpErrorKeepsHistory ==
    [][HttpErrorStep =>
         /\ delivered = <<>>
         /\ nChunks' = nChunks
         /\ conversationHistory' = conversationHistory
         /\ ~HasRole(SubSeq(conversationHistory', Len(turnBase) + 1,
                            Len(conversationHistory')), "assistant")
         /\ IsPrefix(turnBase, conversationHistory')
         /\ botMessageContent'.annotation = HttpError]_vars

\* C6: when reading the stream fails after content was received, the loop
\* stops, no assistant message is committed (in memory or in sessionStorage)
\* and the transcript shows the partial content with the error appended.
C6_PartialContentShown ==
    [][(StreamErrorStep /\ messageBuffer # <<>>) =>
         /\ conversationHistory' = conversationHistory
         /\ sessionStorage' = sessionStorage
         /\ chatHistory' # <<>>
         /\ Last(chatHistory').role = "bot"
         /\ Last(chatHistory').content = Render(messageBuffer)
         /\ Last(chatHistory').annotation \in StreamErrors]_vars

\* C7: at most one chat request is in flight; while one is, the input and
\* the button are disabled, the input is empty, and no submit event can
\* start a second request.
C7_OneRequestInFlight ==
    /\ inFlight <= 1
    /\ (pc # "idle") <=> (inFlight = 1)
    /\ pc # "idle" =>
         /\ messageInputDisabled
         /\ submitButtonDisabled
         /\ messageInputValue = <<>>
         /\ \A text \in Typed : trim(ValueAtSubmit(text)) = <<>>

\* C7 witness: a request is in flight, in the middle of its stream.
C7_Witness ==
    /\ pc = "read"
    /\ inFlight = 1
    /\ messageBuffer = <<"Hi ">>
    /\ messageInputDisabled
    /\ submitButtonDisabled

\* C8: while a request is in flight no other flow modifies the history, and
\* an assistant message is appended right after the user message that
\* started the request.
C8_NoInterference ==
    [][/\ (pc # "idle" /\ pc' # "idle") => conversationHistory' = conversationHistory
       /\ (DoneStep /\ messageBuffer # <<>>) =>
            /\ conversationHistory # <<>>
            /\ Last(conversationHistory) = [role |-> "user", content |-> turnUser]]_vars

\* C9: whenever a request has been built, or the history holds a user or an
\* assistant message, the first element of the history (and of the request's
\* messages) is the system message.
C9_SystemMessageFirst ==
    /\ (HasRole(conversationHistory, "user") \/ HasRole(conversationHistory, "assistant"))
         => conversationHistory[1].role = "system"
    /\ pc # "idle" => lastRequest.messages[1].role = "system"

\* C10: outside clearChat (and a page load), every change of the history is
\* the append of one user or one assistant message (the first system message
\* of an empty history aside).
C10_AppendOnly ==
    [][(nClears' = nClears /\ nReloads' = nReloads) =>
         \/ conversationHistory' = conversationHistory
         \/ /\ conversationHistory = <<>>
            /\ Len(conversationHistory') = 1
            /\ conversationHistory'[1].role = "system"
         \/ /\ Len(conversationHistory') = Len(conversationHistory) + 1
            /\ IsPrefix(conversationHistory, conversationHistory')
            /\ Last(conversationHistory').role \in {"user", "assistant"}]_vars

MetricFields == {"prompt_tokens", "completion_tokens", "total_tokens"}

\* a numeric field of a usage object, a missing one counting as 0
FieldOrZero(f) == IF f = Undefined THEN 0 ELSE f[1]

NoUsage == [model |-> Undefined, prompt_tokens |-> Undefined,
            completion_tokens |-> Undefined, total_tokens |-> Undefined]

\* the step delivered a metadata frame whose payload parsed to an object
ParsedEventStep ==
    /\ ChunkStep
    /\ Len(delivered') = Len(delivered) + 1
    /\ IsPrefix(SENTINEL, Last(delivered'))
    /\ JSONparse(Payload(Last(delivered'))).kind = "object"

\* C11: the session totals are zero at first and, between two clears, change
\* only by a parsed metadata event, which adds each of its fields (a missing
\* one as 0) to the corresponding total: so each total is the sum of that
\* field over the parsed events since the last clear, over all turns of the
\* tab session, however the turns end.
C11_TotalsAreSums ==
    [][/\ nSteps = 0 => sessionMetrics = ZeroMetrics
       /\ nClears' = nClears =>
            LET event == IF ParsedEventStep
                         THEN JSONparse(Payload(Last(delivered'))).obj
                         ELSE NoUsage
            IN \A f \in MetricFields :
                   sessionMetrics'[f] = sessionMetrics[f] + FieldOrZero(event[f])]_vars

\* C12: but for clearChat, no step (a page load that restores the
\* conversation from sessionStorage included) lowers a session total.
C12_MetricsNeverReset ==
    [][nClears' = nClears =>
         \A f \in MetricFields : sessionMetrics'[f] >= sessionMetrics[f]]_vars

\* C13: right after clearChat the history is exactly the system message with
\* the current system prompt, the three totals are 0, the transcript is empty
\* and sessionStorage holds neither the history key nor the metrics key.
C13_ClearResetsAll ==
    [][nClears' = nClears + 1 =>
         /\ conversationHistory' = <<[role |-> "system", content |-> currentSystemPrompt']>>
         /\ \A f \in MetricFields : sessionMetrics'[f] = 0
         /\ chatHistory' = <<>>
         /\ sessionStorage'.history = NoItem
         /\ sessionStorage'.metrics = NoItem]_vars

\* C13 witness: a turn of a content chunk and a metadata frame ended with its
\* answer committed, then the chat was cleared.
C13_Witness ==
    /\ nClears = 1
    /\ turnEnd = "done"
    /\ nChunks = 2
    /\ botMessageContent.content = Render(<<"Hi ">>)
    /\ conversationHistory = <<[role |-> "system", content |-> currentSystemPrompt]>>
    /\ sessionMetrics = ZeroMetrics
    /\ chatHistory = <<>>
    /\ sessionStorage = [history |-> NoItem, metrics |-> NoItem]

\* an accepted submit: the handler goes from idle to its await of fetch
SubmitStep == pc = "idle" /\ pc' = "fetch"

\* the handler leaves through its catch block
FailureStep == pc # "idle" /\ pc' = "idle" /\ turnEnd' \in {"http", "network", "stream"}

\* the handler leaves, whichever way
TurnEndStep == pc # "idle" /\ pc' = "idle" /\ turnEnd' \in {"done", "http", "network", "stream"}

\* C14: a chat request carries temperature (top_p) only if the model
\* directory lists it among the supported parameters of the model named in
\* that same request, also while the lookup for a newly selected model is
\* pending or has failed.
C14_ParamsOnlyIfSupported ==
    pc # "idle" =>
        /\ lastRequest.temperature # Undefined =>
               "temperature" \in ModelDirectory(lastRequest.model)
        /\ lastRequest.top_p # Undefined =>
               "top_p" \in ModelDirectory(lastRequest.model)

\* C15: the messages of every request are the whole history at the time of
\* sending, in order: the history before the submit followed by the user
\* message just submitted, which is their last element.
C15_FullHistorySent ==
    [][SubmitStep =>
         /\ lastRequest'.messages = conversationHistory'
         /\ IsPrefix(conversationHistory, lastRequest'.messages)
         /\ Len(lastRequest'.messages) = Len(conversationHistory) + 1
         /\ turnUser' \in {trim(t) : t \in Typed} \ {<<>>}
         /\ Last(lastRequest'.messages) = [role |-> "user", content |-> turnUser']]_vars

\* C15 witness: the request of a second turn carries the system message, the
\* first question, its answer and the new question.
C15_Witness ==
    /\ pc = "fetch"
    /\ nRequests = 2
    /\ Len(lastRequest.messages) = 4
    /\ lastRequest.messages[1].role = "system"
    /\ lastRequest.messages[2].role = "user"
    /\ lastRequest.messages[3] = [role |-> "assistant", content |-> <<"Hi ">>]
    /\ lastRequest.messages[4] = [role |-> "user", content |-> <<"hi">>]
    /\ lastRequest.messages = conversationHistory

\* C16: an accepted submit issues exactly one POST /api/chat and no other
\* step issues any: after an HTTP error or a failure in the stream the
\* handler is idle and the next request comes with the next submit, which
\* the user makes through the enabled controls.
C16_NoAutomaticRetry ==
    [][/\ SubmitStep => /\ nRequests' = nRequests + 1
                        /\ ~messageInputDisabled
                        /\ ~submitButtonDisabled
       /\ ~SubmitStep => nRequests' = nRequests
       /\ FailureStep => /\ pc' = "idle"
                         /\ inFlight' = 0
                         /\ nRequests' = nRequests]_vars

\* C16 witness: the stream of the only request failed after a chunk; the
\* page is idle again and no second request was issued.
C16_Witness ==
    /\ turnEnd = "stream"
    /\ pc = "idle"
    /\ nChunks >= 1
    /\ nRequests = 1
    /\ botMessageContent.annotation \in StreamErrors

\* C17: while the stream is read, after the k-th delivered chunk the buffer
\* is the concatenation, in arrival order, of the content chunks among the
\* first k, and once a content chunk came the bot element shows the
\* rendering of that whole buffer.
C17_ProgressiveInOrder ==
    pc = "read" =>
        /\ messageBuffer = Concat(ContentOnly(delivered))
        /\ ContentOnly(delivered) # <<>> =>
               /\ botMessageContent.content = Render(Concat(ContentOnly(delivered)))
               /\ botIdx # 0 => chatHistory[botIdx].content = Render(messageBuffer)

\* C17 witness: after "Hi ", a metadata frame and "there" the bot element
\* shows the rendering of "Hi there".
C17_Witness ==
    /\ pc = "read"
    /\ delivered = << <<"Hi ">>, SENTINEL \o <<"{\"prompt_tokens\":5}">>, <<"there">> >>
    /\ messageBuffer = <<"Hi ", "there">>
    /\ botMessageContent.content = Render(<<"Hi ", "there">>)
    /\ sessionMetrics.prompt_tokens = 5

C19_ControlsReenabled ==
    [][/\ TurnEndStep => /\ ~messageInputDisabled'
                         /\ ~submitButtonDisabled'
       /\ pc' # "idle" => /\ messageInputDisabled'
                          /\ submitButtonDisabled']_vars

\* C19 witness: a turn ended by a rejected fetch, the controls enabled.
C19_Witness ==
    /\ turnEnd = "network"
    /\ pc = "idle"
    /\ nRequests = 1
    /\ ~messageInputDisabled
    /\ ~submitButtonDisabled
    /\ botMessageContent.annotation = NetworkError

\* the totals a page load would find stored (none stored: the initial ones)
StoredMetrics(ss) ==
    IF ss.metrics = NoItem THEN ZeroMetrics ELSE parseStored(ss.metrics[1])

\* C20: when a turn ends, the totals stored in sessionStorage are the
\* in-memory session totals, whether the turn ended with a committed answer,
\* an empty buffer or an error.
C20_MetricsPersistedAtTurnEnd ==
    [][TurnEndStep => StoredMetrics(sessionStorage') = sessionMetrics']_vars

\* the step ended the fetch of a loadSystemPrompt called with skipHistoryReset
SkippingLoadStep ==
    /\ nReloads' = nReloads
    /\ \E i \in 1..Len(pendingPrompts) :
          /\ pendingPrompts' = RemoveAt(pendingPrompts, i)
          /\ pendingPrompts[i].skipHistoryReset

\* C21: what a save stores parses back to the history of that moment; a page
\* load that finds a saved history leaves exactly that history in memory
\* (same messages, same order) and calls loadSystemPrompt with
\* skipHistoryReset, and when that call ends the history is as it was, its
\* first message included, whatever prompt was loaded.
C21_SaveRestoreRoundTrip ==
    [][/\ (sessionStorage'.history # sessionStorage.history
            /\ sessionStorage'.history # NoItem) =>
              parseStored(sessionStorage'.history[1]) = conversationHistory'
       /\ (nReloads' = nReloads + 1 /\ sessionStorage.history # NoItem) =>
              /\ conversationHistory' = parseStored(sessionStorage.history[1])
              /\ Len(pendingPrompts') = 1
              /\ pendingPrompts'[1].skipHistoryReset
       /\ SkippingLoadStep => conversationHistory' = conversationHistory]_vars

\* C21 witness: a conversation begun under the default prompt was restored
\* by a page load after the pirate prompt was selected; the prompt load has
\* ended, the history still begins with the default prompt's system message.
C21_Witness ==
    /\ nReloads = 1
    /\ pendingPrompts = <<>>
    /\ localStorage.prompt = Item(OtherPrompt)
    /\ currentSystemPrompt = PromptContent(OtherPrompt)
    /\ conversationHistory =
           <<[role |-> "system", content |-> PromptContent(DEFAULT_PROMPT)],
             [role |-> "user", content |-> <<"hi">>]>>
    /\ sessionStorage.history = Item(stringify(conversationHistory))

\* a text of nothing but whitespace
IsBlank(s) == \A i \in 1..Len(s) : s[i] = WS

\* a submit event that was not accepted: a step that is no step of a running
\* handler, no clear, no page load, no storage event, no ended lookup
EmptySubmitStep ==
    /\ nSteps' = nSteps + 1
    /\ pc' = pc
    /\ nChunks' = nChunks
    /\ nClears' = nClears
    /\ nReloads' = nReloads
    /\ localStorage' = localStorage
    /\ pendingPrompts' = pendingPrompts
    /\ pendingParams' = pendingParams

\* C22: no request is ever sent for an empty or whitespace-only message, and
\* the submit event of such a message leaves the history, the session
\* totals, sessionStorage and the transcript as they are and the controls as
\* enabled as they were.
C22_EmptySubmitNoOp ==
    [][/\ SubmitStep => ~IsBlank(turnUser')
       /\ EmptySubmitStep =>
            /\ IsBlank(messageInputValue')
            /\ conversationHistory' = conversationHistory
            /\ sessionMetrics' = sessionMetrics
            /\ sessionStorage' = sessionStorage
            /\ chatHistory' = chatHistory
            /\ nRequests' = nRequests
            /\ inFlight' = inFlight
            /\ messageInputDisabled' = messageInputDisabled
            /\ submitButtonDisabled' = submitButtonDisabled
            /\ pc = "idle" => (~messageInputDisabled' /\ ~submitButtonDisabled')]_vars

\* C22 witness: after a finished turn the user submitted a blank; the input
\* still holds it, the controls are enabled, one request in all was sent.
C22_Witness ==
    /\ messageInputValue = <<WS>>
    /\ turnEnd = "done"
    /\ pc = "idle"
    /\ nRequests = 1
    /\ ~messageInputDisabled
    /\ ~submitButtonDisabled
    /\ Len(chatHistory) = 2

\* C23: on the settings page the stored model changes only when the user
\* picks a non-empty option of the model select: once the user has picked a
\* model the stored id is the last one picked, whatever loads and filter
\* toggles follow and whatever the select shows, and until then it is what
\* the page found.
C23_ModelKeyOnlyByUserChoice ==
    [][/\ lastChosenModel' # NoItem => localStorage'.model = lastChosenModel'
       /\ lastChosenModel' = lastChosenModel => localStorage'.model = localStorage.model
       /\ localStorage'.model # localStorage.model =>
            /\ modelSelectValue' # ""
            /\ modelSelectValue' # modelSelectValue
            /\ modelOptions' = modelOptions
            /\ localStorage'.model = Item(modelSelectValue')]_vars

\* C23 witness: the user picked the paid default model, then ticked the
\* free-only box: the select no longer offers that model and shows the free
\* one, the stored id is still the model picked.
C23_Witness ==
    /\ lastChosenModel = Item(DEFAULT_MODEL)
    /\ localStorage.model = Item(DEFAULT_MODEL)
    /\ freeOnlyChecked
    /\ ~hasOption(modelOptions, DEFAULT_MODEL)
    /\ modelSelectValue = OtherModel

\* the fetch of loadPrompts ended with a list
PromptsLoadedStep ==
    /\ "prompts" \in settingsPending
    /\ "prompts" \notin settingsPending'
    /\ promptOptions'[1].text # <<"Failed to load prompts">>

\* C24: when the prompt list has loaded, a stored prompt id that is in the
\* list is left as it is; otherwise (absent, or not in the list) the stored
\* key becomes the default prompt if the list holds it and is left as it is
\* if not.
C24_PromptKeyDefaulted ==
    [][PromptsLoadedStep =>
         LET ids == {promptsData'[i].id : i \in 1..Len(promptsData')}
             stored == localStorage.prompt
             inList == stored # NoItem /\ stored[1] \in ids
         IN /\ inList => localStorage'.prompt = stored
            /\ (~inList /\ DEFAULT_PROMPT \in ids) =>
                   localStorage'.prompt = Item(DEFAULT_PROMPT)
            /\ (~inList /\ DEFAULT_PROMPT \notin ids) =>
                   localStorage'.prompt = stored]_vars

\* C24 witness: the page found a stored prompt that the loaded list does not
\* hold (or none); the list holds the default, which is now stored and shown.
C24_Witness ==
    /\ nSteps = 1
    /\ "prompts" \notin settingsPending
    /\ Len(promptsData) = 2
    /\ localStorage.prompt = Item(DEFAULT_PROMPT)
    /\ promptSelectValue = DEFAULT_PROMPT

====
